---- MODULE Spec2Model ----
(***************************************************************************)
(* State-machine model of the secret-links SDK polling engine:             *)
(*   AdaptivePoller  (interval controller, src/src/secret-links-sdk.ts     *)
(*                    lines 235-300),                                      *)
(*   LinkPoller      (poll loop of one link, src/src/types.ts 71-247),     *)
(*   SecretLinksSDK  (listener registry, src/src/secret-links-sdk.ts       *)
(*                    1-234),                                              *)
(*   parseLink       (src/src/utils.ts).                                   *)
(*                                                                         *)
(* JavaScript runs every handler to completion between two awaits, so one  *)
(* action is one run of the event loop: a host call up to its first await, *)
(* a timer callback, or the continuation of poll() after its fetch.        *)
(* Intervals are kept in units of 1/Scale ms so that the repeated          *)
(* multiplication by 1.5 stays exact, as it is in IEEE doubles.            *)
(***************************************************************************)
EXTENDS Integers, Sequences, FiniteSets, TLC

\* ---------------------------------------------------------------- bounds
\* listeners the SDK instance of Spec may allocate
MaxListeners == 2
\* requests the pollers of Spec may issue, all together
MaxRequests == 3
\* requests the single poller of SpecCycle and of SpecPoller may issue
MaxCycles == 4
\* last reading of the wall clock (Date.now()) in SpecCycle
MaxTime == 1
\* empty cycles in a row the interval controller of SpecAdaptive may count
MaxEmpty == 12

\* ------------------------------------------------------- AdaptivePoller
Scale == 2 ^ 11
Ms(n) == n * Scale

PingBaseInterval == 10000
WebhookBaseInterval == 60000
MaxIntervalMs == 300000
MinSuggestedMs == 1000
BackoffThreshold == 3

Max2(a, b) == IF a >= b THEN a ELSE b
Min2(a, b) == IF a <= b THEN a ELSE b

\* currentInterval * backoffMultiplier, backoffMultiplier = 1.5
TimesBackoff(x) == (x * 3) \div 2

\* new AdaptivePoller(token, type, debug)
AdaptivePollerNew(type) ==
    LET base == IF type = "ping" THEN Ms(PingBaseInterval) ELSE Ms(WebhookBaseInterval)
    IN  [baseInterval |-> base, currentInterval |-> base, consecutiveEmpty |-> 0]

\* adjustInterval whose hint branch also restarts the count of empty cycles and
\* applies no floor
adjustIntervalHintResets(a, hasNewContent, nextPollIn) ==
    IF nextPollIn > 0
    THEN [a EXCEPT !.currentInterval = Ms(nextPollIn), !.consecutiveEmpty = 0]
    ELSE IF hasNewContent
    THEN [a EXCEPT !.currentInterval = a.baseInterval, !.consecutiveEmpty = 0]
    ELSE LET n == a.consecutiveEmpty + 1
         IN  IF n >= BackoffThreshold
             THEN [a EXCEPT !.consecutiveEmpty = n,
                            !.currentInterval =
                                Min2(TimesBackoff(a.currentInterval), Ms(MaxIntervalMs))]
             ELSE [a EXCEPT !.consecutiveEmpty = n]

\* adjustInterval that backs off on every empty cycle, from the first one
adjustIntervalNoDebounce(a, hasNewContent, nextPollIn) ==
    IF nextPollIn > 0
    THEN [a EXCEPT !.currentInterval = Max2(Ms(nextPollIn), Ms(MinSuggestedMs))]
    ELSE IF hasNewContent
    THEN [a EXCEPT !.currentInterval = a.baseInterval, !.consecutiveEmpty = 0]
    ELSE [a EXCEPT !.consecutiveEmpty = @ + 1,
                   !.currentInterval =
                       Min2(TimesBackoff(a.currentInterval), Ms(MaxIntervalMs))]

\* adjustInterval whose backoff is not capped at maxInterval
adjustIntervalNoCap(a, hasNewContent, nextPollIn) ==
    IF nextPollIn > 0
    THEN [a EXCEPT !.currentInterval = Max2(Ms(nextPollIn), Ms(MinSuggestedMs))]
    ELSE IF hasNewContent
    THEN [a EXCEPT !.currentInterval = a.baseInterval, !.consecutiveEmpty = 0]
    ELSE LET n == a.consecutiveEmpty + 1
         IN  IF n >= BackoffThreshold /\ a.currentInterval < Ms(MaxIntervalMs)
             THEN [a EXCEPT !.consecutiveEmpty = n,
                            !.currentInterval = TimesBackoff(a.currentInterval)]
             ELSE [a EXCEPT !.consecutiveEmpty = n]

\* adjustInterval whose hint branch applies no floor
adjustIntervalNoFloor(a, hasNewContent, nextPollIn) ==
    IF nextPollIn > 0
    THEN [a EXCEPT !.currentInterval = Ms(nextPollIn)]
    ELSE IF hasNewContent
    THEN [a EXCEPT !.currentInterval = a.baseInterval, !.consecutiveEmpty = 0]
    ELSE LET n == a.consecutiveEmpty + 1
         IN  IF n >= BackoffThreshold
             THEN [a EXCEPT !.consecutiveEmpty = n,
                            !.currentInterval =
                                Min2(TimesBackoff(a.currentInterval), Ms(MaxIntervalMs))]
             ELSE [a EXCEPT !.consecutiveEmpty = n]

\* adjustInterval(hasNewContent, nextPollIn); an absent nextPollIn is 0, which
\* the guard `nextPollIn && nextPollIn > 0` treats like undefined.
adjustInterval(a, hasNewContent, nextPollIn) ==
    IF nextPollIn > 0
    THEN [a EXCEPT !.currentInterval = Max2(Ms(nextPollIn), Ms(MinSuggestedMs))]
    ELSE IF hasNewContent
    THEN [a EXCEPT !.currentInterval = a.baseInterval, !.consecutiveEmpty = 0]
    ELSE LET n == a.consecutiveEmpty + 1
         IN  IF n >= BackoffThreshold
             THEN [a EXCEPT !.consecutiveEmpty = n,
                            !.currentInterval =
                                Min2(TimesBackoff(a.currentInterval), Ms(MaxIntervalMs))]
             ELSE [a EXCEPT !.consecutiveEmpty = n]

\* reset()
reset(a) == [a EXCEPT !.currentInterval = a.baseInterval, !.consecutiveEmpty = 0]

\* ------------------------------------------------------------ parseLink
\* A URL is abstracted to what parseLink and the validation rules read:
\*   str      a non-empty string
\*   https    starts with https:// and has the path /link/<token> with an
\*            optional ?query and #hash, the token over [a-zA-Z0-9_-]
\*   domain   the text between https:// and /link/
\*   tokenLen the length of the token
\*   password the query has a password parameter
\*   hash     the URL has a non-empty fragment
SecretDomain == "secret.annai.ai"
CustomDomain == "links.example.com"
\* matches [^\/]+ of the customDomain pattern, but new URL(url) rejects it
BadHost == "exa mple.com"
Domains == {SecretDomain, CustomDomain, BadHost}
MinTokenLen == 16
MaxTokenLen == 64
PingMaxTokenLen == 24
Url(str, https, domain, tokenLen, password) ==
    [str |-> str, https |-> https, domain |-> domain, tokenLen |-> tokenLen,
     password |-> password, hash |-> FALSE]

\* not a string or empty; not matching either pattern; a token too short
MalformedUrls ==
    {Url(FALSE, FALSE, SecretDomain, MinTokenLen, FALSE),
     Url(TRUE, FALSE, SecretDomain, MinTokenLen, FALSE),
     Url(TRUE, TRUE, SecretDomain, MinTokenLen - 1, FALSE)}

\* the URLs matching a pattern, with a token of one of the lengths
MatchingUrls(tokenLens) ==
    {Url(TRUE, TRUE, d, n, pw) : d \in Domains, n \in tokenLens, pw \in BOOLEAN}

\* the URLs tried: with the token of a ping link and of a webhook link
Urls == MalformedUrls \cup MatchingUrls({MinTokenLen, PingMaxTokenLen + 1})
\* the same without the webhook links
PingUrls == MalformedUrls \cup MatchingUrls({MinTokenLen})

detectLinkType(tokenLen) == IF tokenLen <= PingMaxTokenLen THEN "ping" ELSE "webhook"

InvalidLink ==
    [threw |-> FALSE, isValid |-> FALSE, tokenLen |-> 0, type |-> "ping",
     hasPassword |-> FALSE, hasEncryption |-> FALSE, domain |-> ""]

\* parseLink(url); threw = the call ended in the TypeError of new URL(url)
parseLink(u) ==
    LET tokenOk == u.tokenLen >= MinTokenLen /\ u.tokenLen <= MaxTokenLen
        match == u.https /\ tokenOk
    IN  IF ~u.str THEN InvalidLink
        ELSE IF ~match THEN InvalidLink
        ELSE IF u.domain = BadHost THEN [InvalidLink EXCEPT !.threw = TRUE]
        ELSE [threw |-> FALSE, isValid |-> TRUE, tokenLen |-> u.tokenLen,
              type |-> detectLinkType(u.tokenLen), hasPassword |-> u.password,
              hasEncryption |-> u.hash, domain |-> u.domain]

\* ---------------------------------------------------- validateSDKOptions
\* A JavaScript value as validateSDKOptions reads it: t is what typeof gives
\* ("nan" is the number NaN), n the number, s the string.
JsUndefined == [t |-> "undefined", n |-> 0, s |-> ""]
JsNaN == [t |-> "nan", n |-> 0, s |-> ""]
JsNumber(n) == [t |-> "number", n |-> n, s |-> ""]
JsString(s) == [t |-> "string", n |-> 0, s |-> s]

TypeOf(v) == IF v.t = "nan" THEN "number" ELSE v.t
\* !v
Falsy(v) ==
    \/ v.t \in {"undefined", "nan"}
    \/ v.t = "number" /\ v.n = 0
    \/ v.t = "string" /\ v.s = ""
\* v < 1000; every comparison with NaN is false
Below1000(v) == v.t = "number" /\ v.n < 1000

ValidEndpoint == "https://example.com/api/poll"
\* new URL(s) does not throw
ParsesAsUrl(str) == str = ValidEndpoint

\* the pollingEndpoint values tried: absent, empty, a number, not a URL, a URL
EndpointsTried ==
    {JsUndefined, JsString(""), JsNumber(8080), JsString("not-a-url"),
     JsString(ValidEndpoint)}
\* the pingInterval and webhookInterval values tried
IntervalsTried ==
    {JsUndefined, JsString("5000"), JsNaN, JsNumber(999), JsNumber(1000), JsNumber(5000)}
\* the arguments of the constructor tried: null, and objects with these fields
ConstructorOptions ==
    [isObject : {TRUE}, pollingEndpoint : EndpointsTried,
     pingInterval : IntervalsTried, webhookInterval : IntervalsTried]
    \cup {[isObject |-> FALSE, pollingEndpoint |-> JsUndefined,
           pingInterval |-> JsUndefined, webhookInterval |-> JsUndefined]}
DefaultOptions ==
    [isObject |-> TRUE, pollingEndpoint |-> JsString(ValidEndpoint),
     pingInterval |-> JsUndefined, webhookInterval |-> JsUndefined]

\* the interval check of validateSDKOptions
IntervalRejected(v) == v.t # "undefined" /\ (TypeOf(v) # "number" \/ Below1000(v))

\* validateSDKOptions(options): the message of the Error thrown, "" for none
validateSDKOptions(o) ==
    IF ~o.isObject THEN "SDK options are required"
    ELSE IF Falsy(o.pollingEndpoint) THEN "pollingEndpoint is required in SDK options"
    ELSE IF TypeOf(o.pollingEndpoint) # "string" THEN "pollingEndpoint must be a string"
    ELSE IF ~ParsesAsUrl(o.pollingEndpoint.s) THEN "pollingEndpoint must be a valid URL"
    ELSE IF IntervalRejected(o.pingInterval)
    THEN "pingInterval must be a number >= 1000 (1 second)"
    ELSE IF IntervalRejected(o.webhookInterval)
    THEN "webhookInterval must be a number >= 1000 (1 second)"
    ELSE ""

\* ----------------------------------------------------------- validation
\* SDKOptions.validation; an absent list is the empty set
NoValidation ==
    [allowedDomains |-> {}, allowedLinkTypes |-> {}, requirePassword |-> FALSE]
StrictValidation ==
    [allowedDomains |-> {SecretDomain}, allowedLinkTypes |-> {},
     requirePassword |-> TRUE]
Validations == {NoValidation, StrictValidation}
\* further policies: one rule each, and lists given but empty
WebhookOnlyValidation ==
    [allowedDomains |-> {}, allowedLinkTypes |-> {"webhook"}, requirePassword |-> FALSE]
CustomDomainValidation ==
    [allowedDomains |-> {CustomDomain}, allowedLinkTypes |-> {"ping", "webhook"},
     requirePassword |-> FALSE]
PasswordValidation ==
    [allowedDomains |-> {}, allowedLinkTypes |-> {}, requirePassword |-> TRUE]
ValidationsTried ==
    Validations \cup {WebhookOnlyValidation, CustomDomainValidation, PasswordValidation}

\* applyValidationRules(linkInfo): TRUE when a rule rejects the link
applyValidationRules(v, li) ==
    \/ v.allowedDomains # {} /\ li.domain \notin v.allowedDomains
    \/ v.allowedLinkTypes # {} /\ li.type \notin v.allowedLinkTypes
    \/ v.requirePassword /\ ~li.hasPassword

\* validateLink(url)
validateLink(v, u) ==
    LET li == parseLink(u)
    IN  IF li.threw \/ ~li.isValid THEN li
        ELSE IF applyValidationRules(v, li) THEN [li EXCEPT !.isValid = FALSE]
        ELSE li

\* ----------------------------------------------------------- LinkPoller
\* A LinkPoller object, with the two things the event loop holds for it:
\*   timers    the setTimeout callbacks not yet run nor cleared, each with its
\*             handle h and its delay (in 1/Scale ms)
\*   inflight  the fetches awaited by a suspended poll(): src says whether
\*             start() or a timer called that poll(); token (by its length),
\*             type and lastSeen are those fields of the PollRequest sent
\*   issued    the number of requests this poller has sent so far
\* timeoutId 0 is null; lastSeenTimestamp <<>> is undefined.
\* callbacks says for onPayload and onStatusChange whether a handler is there,
\* and for onError whose it is: "listener", "sdk" or "none".
LinkPollerNew(linkInfo, options) ==
    [type |-> linkInfo.type, token |-> linkInfo.tokenLen, isRunning |-> FALSE, timeoutId |-> 0,
     lastSeenTimestamp |-> <<>>, adaptive |-> AdaptivePollerNew(linkInfo.type),
     timers |-> {}, inflight |-> <<>>, issued |-> 0, callbacks |-> options.callbacks]

\* the callbacks a host hands to a LinkPoller it constructs itself
DirectCallbacks == [onPayload |-> TRUE, onStatusChange |-> TRUE, onError |-> "listener"]

\* a handle setTimeout has not handed out to a timer still known to P
FreshHandle(P) ==
    CHOOSE h \in 1..(Cardinality(P.timers) + 2) :
        /\ h # P.timeoutId
        /\ \A t \in P.timers : t.h # h
        /\ \A k \in 1..(h - 1) : k = P.timeoutId \/ \E t \in P.timers : t.h = k

\* scheduleNextPoll()
scheduleNextPoll(P) ==
    IF ~P.isRunning THEN P
    ELSE LET h == FreshHandle(P)
         IN  [P EXCEPT !.timeoutId = h,
                       !.timers = @ \cup {[h |-> h, delay |-> P.adaptive.currentInterval]}]

\* stop() without its clearTimeout: the running flag is cleared, the timer stays
stopKeepsTimer(P) ==
    IF ~P.isRunning THEN P ELSE [P EXCEPT !.isRunning = FALSE]

\* stop() written as a toggle of the running flag
stopToggles(P) ==
    [P EXCEPT !.isRunning = ~@, !.timeoutId = 0,
              !.timers = {t \in @ : t.h # P.timeoutId}]

\* stop()
stop(P) ==
    IF ~P.isRunning THEN P
    ELSE IF P.timeoutId # 0
    THEN [P EXCEPT !.isRunning = FALSE, !.timeoutId = 0,
                   !.timers = {t \in @ : t.h # P.timeoutId}]
    ELSE [P EXCEPT !.isRunning = FALSE]

\* poll(), from its entry to the await of fetch
pollBegin(P, src) ==
    IF ~P.isRunning THEN P
    ELSE [P EXCEPT !.inflight = Append(@, [src |-> src, token |-> P.token, type |-> P.type,
                                           lastSeen |-> P.lastSeenTimestamp]),
                   !.issued = @ + 1]

\* start() without the test of isRunning
startUnguarded(P) ==
    pollBegin([P EXCEPT !.isRunning = TRUE], "start")

\* start() that waits one interval before its first cycle
startAfterInterval(P) ==
    IF P.isRunning THEN P
    ELSE scheduleNextPoll([P EXCEPT !.isRunning = TRUE])

\* start(), up to the await inside poll()
start(P) ==
    IF P.isRunning THEN P
    ELSE pollBegin([P EXCEPT !.isRunning = TRUE], "start")

\* What one exchange with the polling endpoint yields.  ok = FALSE is a
\* transport or protocol failure: fetch rejected, a non-2xx status, or a body
\* response.json() cannot parse; the other fields are then unused.
LinkStatuses == {"active", "expired", "exhausted", "deleted"}
TerminalStatuses == {"expired", "exhausted", "deleted"}
NextPollIns == {0, 2000}
TransportFailure ==
    [ok |-> FALSE, hasNewContent |-> FALSE, payload |-> FALSE, nextPollIn |-> 0,
     error |-> FALSE, linkStatus |-> "active"]
\* The responses tried.  Fields the cycle never reads are not varied: payload
\* is read only when hasNewContent holds (line 178), and after a status other
\* than 'active' the cycle returns or throws before it reads hasNewContent
\* again or nextPollIn (lines 188-199).
Responses ==
    {r \in [ok : {TRUE}, hasNewContent : BOOLEAN, payload : BOOLEAN,
            nextPollIn : NextPollIns, error : BOOLEAN, linkStatus : LinkStatuses] :
        /\ r.payload => r.hasNewContent
        /\ r.linkStatus # "active" => r.nextPollIn = 0 /\ (r.hasNewContent => r.payload)}
    \cup {TransportFailure}

\* A smaller alphabet for the runs with several listeners: a failure, an
\* empty cycle, a delivered payload, a deleted link.
CoreResponses ==
    {r \in Responses :
        /\ r.nextPollIn = 0 /\ ~r.error
        /\ r.linkStatus \in {"active", "deleted"}
        /\ r.hasNewContent => r.payload /\ r.linkStatus = "active"}

\* Whether each callback invocation of one cycle throws: onPayload (line 180),
\* onStatusChange (189), onError for a server error (204), onError in the
\* catch block (214).
CallbackThrows ==
    [onPayload : BOOLEAN, onStatusChange : BOOLEAN, onError : BOOLEAN,
     onErrorCatch : BOOLEAN]

Call(name, arg) == [cb |-> name, arg |-> arg]

\* this.callbacks.onError?.(error, ...): the call it makes, if any; the
\* SDK-level handler is recorded under its own name
OnErrorCalls(P, arg) ==
    IF P.callbacks.onError = "none" THEN <<>>
    ELSE IF P.callbacks.onError = "sdk" THEN <<Call("SDK.onError", arg)>>
    ELSE <<Call("onError", arg)>>


\* lines 177-185 with the timestamp taken on every 2xx response
payloadStepStampsAlways(P, resp, cb, t) ==
    [P |-> [P EXCEPT !.lastSeenTimestamp = <<t>>],
     calls |-> IF resp.hasNewContent /\ resp.payload /\ P.callbacks.onPayload
               THEN <<Call("onPayload", "payload")>> ELSE <<>>,
     thrown |-> resp.hasNewContent /\ resp.payload /\ cb.onPayload /\ P.callbacks.onPayload,
     returned |-> FALSE]

\* lines 177-185: new content
payloadStep(P, resp, cb, t) ==
    IF resp.hasNewContent /\ resp.payload
    THEN [P |-> [P EXCEPT !.lastSeenTimestamp = <<t>>],
          calls |-> IF P.callbacks.onPayload THEN <<Call("onPayload", "payload")>>
                    ELSE <<>>,
          thrown |-> cb.onPayload /\ P.callbacks.onPayload, returned |-> FALSE]
    ELSE [P |-> P, calls |-> <<>>, thrown |-> FALSE, returned |-> FALSE]

\* lines 187-199: link status
statusStep(R, resp, cb) ==
    IF R.thrown \/ resp.linkStatus = "active" THEN R
    ELSE LET c == IF R.P.callbacks.onStatusChange
                  THEN Append(R.calls, Call("onStatusChange", resp.linkStatus))
                  ELSE R.calls
         IN  IF cb.onStatusChange /\ R.P.callbacks.onStatusChange
             THEN [R EXCEPT !.calls = c, !.thrown = TRUE]
             ELSE IF resp.linkStatus \in TerminalStatuses
             THEN [R EXCEPT !.calls = c, !.P = stop(R.P), !.returned = TRUE]
             ELSE [R EXCEPT !.calls = c]

\* lines 201-206: error reported by the server
errorStep(R, resp, cb) ==
    IF R.thrown \/ R.returned \/ ~resp.error THEN R
    ELSE [R EXCEPT !.calls = @ \o OnErrorCalls(R.P, "server"),
                   !.thrown = cb.onError /\ R.P.callbacks.onError # "none"]

\* lines 208-210 where only a delivered payload counts as content
adjustStepPayloadOnly(R, resp) ==
    IF R.thrown \/ R.returned THEN R
    ELSE [R EXCEPT !.P = scheduleNextPoll(
              [R.P EXCEPT !.adaptive = adjustInterval(@, resp.hasNewContent /\ resp.payload,
                                                      resp.nextPollIn)])]

\* lines 208-210: adjust and schedule
adjustStep(R, resp) ==
    IF R.thrown \/ R.returned THEN R
    ELSE [R EXCEPT !.P = scheduleNextPoll(
              [R.P EXCEPT !.adaptive = adjustInterval(@, resp.hasNewContent, resp.nextPollIn)])]

\* the try block of poll() after the fetch, lines 165-210
tryBlock(P, resp, cb, t) ==
    IF ~resp.ok
    THEN [P |-> P, calls |-> <<>>, thrown |-> TRUE, returned |-> FALSE]
    ELSE adjustStep(errorStep(statusStep(payloadStep(P, resp, cb, t), resp, cb), resp, cb), resp)

\* the catch block of poll(), lines 212-223; escaped = poll() rejects
catchBlock(R, resp, cb) ==
    IF ~R.thrown THEN [P |-> R.P, calls |-> R.calls, escaped |-> FALSE]
    ELSE LET c == R.calls \o OnErrorCalls(R.P, IF resp.ok THEN "thrown" ELSE "transport")
         IN  IF cb.onErrorCatch /\ R.P.callbacks.onError # "none"
             THEN [P |-> R.P, calls |-> c, escaped |-> TRUE]
             ELSE [P |-> scheduleNextPoll(
                            [R.P EXCEPT !.adaptive = adjustInterval(@, FALSE, 0)]),
                   calls |-> c, escaped |-> FALSE]

\* poll() from the completion of its fetch to its end
pollResume(P, resp, cb, t) == catchBlock(tryBlock(P, resp, cb, t), resp, cb)

\* ------------------------------------------------------- SecretLinksSDK
VARIABLES
    validation,       \* SDKOptions.validation, fixed at construction
    intervals,        \* this.intervals: the polling interval per link type, ms
    activeListeners,  \* Map listenerId -> poller (its index in pollers)
    listenerCounter,  \* this.listenerCounter
    pollers,          \* the LinkPoller objects constructed so far, by index
    promises,         \* per poller the startListening call that made it: its
                      \* status, its callbacks, the identifier it allocated and, while it is
                      \* pending, the identifiers the table held before it
    now,              \* Date.now()
    last              \* what the most recent handler run did (history)

vars == <<validation, intervals, activeListeners, listenerCounter, pollers, promises, now, last>>

\* an identifier made of the clock reading alone
ListenerIdOfTime(t, c) == <<t, 0>>

\* `listener-${Date.now()}-${this.listenerCounter}`
ListenerId(t, c) == <<t, c>>
\* an identifier no SDK instance allocates (its counter starts at 1)
UnknownId == ListenerId(0, 0)
NoId == <<>>

RECURSIVE SumIssued(_)
SumIssued(S) ==
    IF S = {} THEN 0
    ELSE LET p == CHOOSE x \in S : TRUE
         IN  pollers[p].issued + SumIssued(S \ {p})
\* requests issued so far by all pollers
TotalIssued == SumIssued(DOMAIN pollers)

\* the identifiers startListening has allocated
AllocatedIds == {promises[p].id : p \in DOMAIN promises}

\* The record kept in `last`:
\*   op       the handler: startListening, complete, timer, stopListening,
\*            stopAll, start, stop
\*   p, id    the poller and the listener identifier it acted on
\*   error    the message startListening rejected with
\*   resp     the response a completed request carried
\*   calls    the callbacks the cycle invoked, in order
\*   escaped  poll() ended by throwing
\*   running  isRunning of the poller when the handler began
\*   src      who called the poll() that resumed: start or timer
\*   settled  what became of the startListening promise in this run
\*   tableBefore  the identifiers the table held when that call was made
\*   options  the argument of the constructor
\*   url, link  the argument of validateLink and what it returned
\*   statuses, count, listening  what a status query returned
NoEvent ==
    [op |-> "none", p |-> 0, id |-> NoId, error |-> "", resp |-> TransportFailure,
     calls |-> <<>>, escaped |-> FALSE, running |-> FALSE, src |-> "", settled |-> "",
     tableBefore |-> {}, options |-> DefaultOptions,
     url |-> Url(FALSE, FALSE, "", 0, FALSE), link |-> InvalidLink,
     statuses |-> <<>>, count |-> 0, listening |-> FALSE]

\* a delete that empties the map
MapDeleteClears(m, id) == [k \in {} |-> 0]
\* a delete that removes nothing
MapDeleteKeeps(m, id) == m
\* a set that stores nothing
MapSetDrops(m, id, v) == m

\* Map.delete(listenerId)
MapDelete(m, id) == [k \in DOMAIN m \ {id} |-> m[k]]
\* Map.set(listenerId, poller)
MapSet(m, id, v) == [k \in DOMAIN m \cup {id} |-> IF k = id THEN v ELSE m[k]]

\* SDKOptions.pingInterval and webhookInterval in ms; 0 is an absent option
NoOverride == [pingInterval |-> 0, webhookInterval |-> 0]
\* the overrides tried: validateSDKOptions accepts every number >= 1000
IntervalOverrides == {0, 5000, 30000}
SDKOptionsTried == [pingInterval : IntervalOverrides, webhookInterval : IntervalOverrides]

\* this.intervals of the constructor: `options.pingInterval || 10000`
SDKIntervals(options) ==
    [ping |-> IF options.pingInterval # 0 THEN options.pingInterval
              ELSE PingBaseInterval,
     webhook |-> IF options.webhookInterval # 0 THEN options.webhookInterval
                 ELSE WebhookBaseInterval]

\* `options.pingInterval || 10000`: the operand as SDKIntervals reads it
OrDefault(v) == IF Falsy(v) THEN 0 ELSE v.n

\* new SecretLinksSDK(options), with the default intervals
Init ==
    /\ validation \in Validations
    /\ intervals = SDKIntervals(NoOverride)
    /\ activeListeners = [k \in {} |-> 0]
    /\ listenerCounter = 0
    /\ pollers = [k \in {} |-> 0]
    /\ promises = [k \in {} |-> 0]
    /\ now = 0
    /\ last = NoEvent

\* the callbacks argument of startListening: which handlers it has
AllCallbacks == [onPayload |-> TRUE, onStatusChange |-> TRUE, onError |-> TRUE]
CallbacksTried == [onPayload : BOOLEAN, onStatusChange : BOOLEAN, onError : BOOLEAN]

\* the callbacks of the poller wired to the SDK-level handler whatever the
\* listener supplied
WireCallbacksToSdk(callbacks) ==
    [onPayload |-> callbacks.onPayload, onStatusChange |-> callbacks.onStatusChange,
     onError |-> "sdk"]

\* the callbacks startListening hands to the poller, lines 98-102:
\* onError: callbacks.onError || this.onError
WireCallbacks(callbacks) ==
    [onPayload |-> callbacks.onPayload, onStatusChange |-> callbacks.onStatusChange,
     onError |-> IF callbacks.onError THEN "listener" ELSE "sdk"]

\* startListening(linkUrl, callbacks) up to the await inside poll(): the
\* validation, and for a valid link the allocation of the identifier, the
\* construction and registration of the poller and the first request.
\* maxL and maxR bound the listeners and the requests of the run.
StartListeningWith(u, callbacks, maxL, maxR) ==
    LET li == validateLink(validation, u)
    IN  IF li.threw \/ ~li.isValid
        THEN /\ last' = [NoEvent EXCEPT !.op = "startListening", !.settled = "rejected",
                            !.error = IF li.threw THEN "TypeError: Invalid URL"
                                      ELSE "Invalid Secret Link URL"]
             /\ UNCHANGED <<validation, intervals, activeListeners, listenerCounter, pollers,
                            promises, now>>
        ELSE LET c == listenerCounter + 1
                 id == ListenerId(now, c)
                 p == Cardinality(DOMAIN pollers) + 1
                 P == start(LinkPollerNew(li, [interval |-> intervals[li.type],
                                               callbacks |-> WireCallbacks(callbacks)]))
             IN  /\ listenerCounter < maxL
                 /\ TotalIssued < maxR
                 /\ listenerCounter' = c
                 /\ activeListeners' = MapSet(activeListeners, id, p)
                 /\ pollers' = [k \in DOMAIN pollers \cup {p} |->
                                   IF k = p THEN P ELSE pollers[k]]
                 /\ promises' = [k \in DOMAIN promises \cup {p} |->
                                    IF k = p
                                    THEN [status |-> "pending", id |-> id,
                                          tableBefore |-> DOMAIN activeListeners,
                                          callbacks |-> callbacks]
                                    ELSE promises[k]]
                 /\ last' = [NoEvent EXCEPT !.op = "startListening", !.p = p, !.id = id,
                                            !.settled = "pending"]
                 /\ UNCHANGED <<validation, intervals, now>>

\* startListening with a handler for every event
StartListening(u, maxL, maxR) == StartListeningWith(u, AllCallbacks, maxL, maxR)

\* The callback outcomes that can differ for resp: a callback that the cycle
\* does not reach cannot throw.
ThrowsFor(resp) ==
    {cb \in CallbackThrows :
        /\ cb.onPayload => resp.ok /\ resp.hasNewContent /\ resp.payload
        /\ cb.onStatusChange => resp.ok /\ resp.linkStatus # "active" /\ ~cb.onPayload
        /\ cb.onError => /\ resp.ok /\ resp.error /\ ~cb.onPayload /\ ~cb.onStatusChange
                         /\ resp.linkStatus \notin TerminalStatuses
        /\ cb.onErrorCatch => ~resp.ok \/ cb.onPayload \/ cb.onStatusChange \/ cb.onError}

\* a cycle that wrote its interval controller to every poller, as if the
\* pollers shared one AdaptivePoller
AssignShared(ps, p, P) ==
    [k \in DOMAIN ps |-> IF k = p THEN P ELSE [ps[k] EXCEPT !.adaptive = P.adaptive]]

\* the assignments of poll() go to the fields of its own object (`this`)
AssignThis(ps, p, P) == [ps EXCEPT ![p] = P]

\* the i-th request in flight of poller p completes with resp: poll() resumes,
\* and when the start() of a startListening call was awaiting that poll(),
\* startListening resumes after it (lines 111-124 of secret-links-sdk.ts).
Complete(p, i, resp, cb) ==
    /\ LET req == pollers[p].inflight[i]
           rest == [k \in 1..(Len(pollers[p].inflight) - 1) |->
                       IF k < i THEN pollers[p].inflight[k] ELSE pollers[p].inflight[k + 1]]
           R == pollResume([pollers[p] EXCEPT !.inflight = rest], resp, cb, now)
           awaited == /\ req.src = "start"
                      /\ p \in DOMAIN promises
                      /\ promises[p].status = "pending"
       IN  /\ pollers' = AssignThis(pollers, p, R.P)
           /\ IF awaited
              THEN /\ promises' = [promises EXCEPT
                                      ![p].status = IF R.escaped THEN "rejected" ELSE "resolved",
                                      ![p].tableBefore = {}]
                   /\ activeListeners' =
                        IF R.escaped THEN MapDelete(activeListeners, promises[p].id)
                        ELSE activeListeners
              ELSE UNCHANGED <<promises, activeListeners>>
           /\ last' = [NoEvent EXCEPT !.op = "complete", !.p = p, !.resp = resp,
                          !.calls = R.calls, !.escaped = R.escaped,
                          !.running = pollers[p].isRunning, !.src = req.src,
                          !.id = IF awaited THEN promises[p].id ELSE NoId,
                          !.tableBefore = IF awaited THEN promises[p].tableBefore ELSE {},
                          !.settled = IF ~awaited THEN ""
                                      ELSE IF R.escaped THEN "rejected" ELSE "resolved"]
    /\ UNCHANGED <<validation, intervals, listenerCounter, now>>

\* some request in flight completes with a response of resps
PollComplete(resps) ==
    \E p \in DOMAIN pollers :
        \E i \in 1..Len(pollers[p].inflight) :
            \E resp \in resps :
                \E cb \in ThrowsFor(resp) : Complete(p, i, resp, cb)

\* the timer with handle h of poller p fires: () => this.poll()
TimerFire(p, h, maxR) ==
    /\ pollers[p].isRunning => TotalIssued < maxR
    /\ pollers' = [pollers EXCEPT ![p] =
                      pollBegin([@ EXCEPT !.timers = {t \in @ : t.h # h}], "timer")]
    /\ last' = [NoEvent EXCEPT !.op = "timer", !.p = p, !.running = pollers[p].isRunning]
    /\ UNCHANGED <<validation, intervals, activeListeners, listenerCounter, promises, now>>

\* some pending timer fires
TimerFires(maxR) ==
    \E p \in DOMAIN pollers : \E t \in pollers[p].timers : TimerFire(p, t.h, maxR)

\* stopListening(listenerId) that treats an unknown identifier as "all"
StopListeningUnknownStopsAll(id) ==
    /\ IF id \in DOMAIN activeListeners
       THEN /\ pollers' = [pollers EXCEPT ![activeListeners[id]] = stop(@)]
            /\ activeListeners' = MapDelete(activeListeners, id)
            /\ last' = [NoEvent EXCEPT !.op = "stopListening", !.id = id,
                           !.p = activeListeners[id],
                           !.running = pollers[activeListeners[id]].isRunning]
       ELSE /\ pollers' = [k \in DOMAIN pollers |-> stop(pollers[k])]
            /\ activeListeners' = [k \in {} |-> 0]
            /\ last' = [NoEvent EXCEPT !.op = "stopListening"]
    /\ UNCHANGED <<validation, intervals, listenerCounter, promises, now>>

\* stopListening(listenerId)
StopListening(id) ==
    /\ IF id \in DOMAIN activeListeners
       THEN /\ pollers' = [pollers EXCEPT ![activeListeners[id]] = stop(@)]
            /\ activeListeners' = MapDelete(activeListeners, id)
            /\ last' = [NoEvent EXCEPT !.op = "stopListening", !.id = id,
                           !.p = activeListeners[id],
                           !.running = pollers[activeListeners[id]].isRunning]
       ELSE /\ UNCHANGED <<pollers, activeListeners>>
            /\ last' = [NoEvent EXCEPT !.op = "stopListening"]
    /\ UNCHANGED <<validation, intervals, listenerCounter, promises, now>>

\* stopAll() without activeListeners.clear()
StopAllKeepsTable ==
    /\ pollers' = [k \in DOMAIN pollers |->
                      IF \E id \in DOMAIN activeListeners : activeListeners[id] = k
                      THEN stop(pollers[k]) ELSE pollers[k]]
    /\ last' = [NoEvent EXCEPT !.op = "stopAll"]
    /\ UNCHANGED <<validation, intervals, activeListeners, listenerCounter, promises, now>>

\* stopAll()
StopAll ==
    /\ pollers' = [k \in DOMAIN pollers |->
                      IF \E id \in DOMAIN activeListeners : activeListeners[id] = k
                      THEN stop(pollers[k]) ELSE pollers[k]]
    /\ activeListeners' = [k \in {} |-> 0]
    /\ last' = [NoEvent EXCEPT !.op = "stopAll"]
    /\ UNCHANGED <<validation, intervals, listenerCounter, promises, now>>

\* the wall clock advances
Tick ==
    /\ now < MaxTime
    /\ now' = now + 1
    /\ UNCHANGED <<validation, intervals, activeListeners, listenerCounter, pollers, promises, last>>

\* One SDK instance with up to MaxListeners listeners of ping links, all within
\* one reading of the clock.
Next ==
    \/ \E u \in PingUrls : StartListening(u, MaxListeners, MaxRequests)
    \/ PollComplete(CoreResponses)
    \/ TimerFires(MaxRequests)
    \/ \E id \in AllocatedIds \cup {UnknownId} : StopListening(id)
    \/ StopAll

Spec == Init /\ [][Next]_vars

\* One SDK instance with one listener, every response and a running clock.
NextCycle ==
    \/ \E u \in Urls : StartListening(u, 1, MaxCycles)
    \/ PollComplete(Responses)
    \/ TimerFires(MaxCycles)
    \/ \E id \in AllocatedIds \cup {UnknownId} : StopListening(id)
    \/ StopAll
    \/ Tick

SpecCycle == Init /\ [][NextCycle]_vars

\* ------------------------------------------- a LinkPoller used directly
\* index.ts exports LinkPoller: the host constructs one and calls start() and
\* stop() itself, in any order.
\* a token length that detectLinkType gives the type
TokenLenOf(type) == IF type = "ping" THEN MinTokenLen ELSE PingMaxTokenLen + 1

InitPoller ==
    /\ validation = NoValidation
    /\ intervals = SDKIntervals(NoOverride)
    /\ activeListeners = [k \in {} |-> 0]
    /\ listenerCounter = 0
    /\ \E type \in {"ping", "webhook"} :
          pollers = [k \in {1} |-> LinkPollerNew([type |-> type, tokenLen |-> TokenLenOf(type)],
                                                  [interval |-> intervals[type],
                                                   callbacks |-> DirectCallbacks])]
    /\ promises = [k \in {} |-> 0]
    /\ now = 0
    /\ last = NoEvent

\* poller.start(), up to the await inside poll()
HostStart(p) ==
    /\ ~pollers[p].isRunning => TotalIssued < MaxCycles
    /\ pollers' = [pollers EXCEPT ![p] = start(@)]
    /\ last' = [NoEvent EXCEPT !.op = "start", !.p = p, !.running = pollers[p].isRunning]
    /\ UNCHANGED <<validation, intervals, activeListeners, listenerCounter, promises, now>>

\* poller.stop()
HostStop(p) ==
    /\ pollers' = [pollers EXCEPT ![p] = stop(@)]
    /\ last' = [NoEvent EXCEPT !.op = "stop", !.p = p, !.running = pollers[p].isRunning]
    /\ UNCHANGED <<validation, intervals, activeListeners, listenerCounter, promises, now>>

NextPoller ==
    \/ \E p \in DOMAIN pollers : HostStart(p)
    \/ \E p \in DOMAIN pollers : HostStop(p)
    \/ PollComplete(CoreResponses)
    \/ TimerFires(MaxCycles)

SpecPoller == InitPoller /\ [][NextPoller]_vars

\* ------------------------------------------- an AdaptivePoller used directly
\* index.ts exports AdaptivePoller; here the host calls the interval controller
\* of a poller that is never started, in any order.
\* the nextPollIn arguments tried: absent, below the floor of 1000, above it
SuggestedIntervals == {0, 500, 2000, 320000}

\* adaptive.adjustInterval(hasNewContent, nextPollIn); `last` keeps the
\* arguments in the fields of resp.
AdjustInterval(p, hasNewContent, nextPollIn) ==
    /\ pollers[p].adaptive.consecutiveEmpty < MaxEmpty
    /\ pollers' = [pollers EXCEPT
                      ![p].adaptive = adjustInterval(@, hasNewContent, nextPollIn)]
    /\ last' = [NoEvent EXCEPT !.op = "adjustInterval", !.p = p,
                   !.resp = [TransportFailure EXCEPT !.hasNewContent = hasNewContent,
                                                     !.nextPollIn = nextPollIn]]
    /\ UNCHANGED <<validation, intervals, activeListeners, listenerCounter, promises, now>>

\* adaptive.reset()
AdaptiveReset(p) ==
    /\ pollers' = [pollers EXCEPT ![p].adaptive = reset(@)]
    /\ last' = [NoEvent EXCEPT !.op = "reset", !.p = p]
    /\ UNCHANGED <<validation, intervals, activeListeners, listenerCounter, promises, now>>

NextAdaptive ==
    \/ \E p \in DOMAIN pollers :
          \E hasNewContent \in BOOLEAN, nextPollIn \in SuggestedIntervals :
              AdjustInterval(p, hasNewContent, nextPollIn)
    \/ \E p \in DOMAIN pollers : AdaptiveReset(p)

SpecAdaptive == InitPoller /\ [][NextAdaptive]_vars

\* ------------------------------------------------------ the poll loop, fair
\* One listener that is never stopped.  The event loop runs a timer that is
\* due, and a fetch settles, with a response or with a failure.
NextLive ==
    \/ \E u \in PingUrls : StartListening(u, 1, MaxCycles)
    \/ PollComplete(Responses)
    \/ TimerFires(MaxCycles)

Fairness ==
    /\ WF_vars(PollComplete(Responses))
    /\ WF_vars(TimerFires(MaxCycles))

SpecLive == Init /\ [][NextLive]_vars /\ Fairness

\* ------------------------------------------- listeners with and without handlers
\* One listener started with any subset of the three handlers.
NextCallbacks ==
    \/ \E u \in PingUrls : \E callbacks \in CallbacksTried :
          StartListeningWith(u, callbacks, 1, MaxRequests)
    \/ PollComplete(Responses)
    \/ TimerFires(MaxRequests)
    \/ \E id \in AllocatedIds : StopListening(id)

SpecCallbacks == Init /\ [][NextCallbacks]_vars

\* ------------------------------------------- the status queries
\* LinkPoller.getStatus(), without clientId and token, which never change
getStatus(P) ==
    [isRunning |-> P.isRunning, currentInterval |-> P.adaptive.currentInterval,
     consecutiveEmpty |-> P.adaptive.consecutiveEmpty, type |-> P.type]

\* getListenerStatus(listenerId): <<>> is null
getListenerStatus(m, ps, id) ==
    IF id \in DOMAIN m THEN <<getStatus(ps[m[id]])>> ELSE <<>>

\* the keys of the Map in its iteration order, which is the order of insertion
\* and so the order of the counter in the identifier
RECURSIVE KeysInOrder(_)
KeysInOrder(ids) ==
    IF ids = {} THEN <<>>
    ELSE LET first == CHOOSE id \in ids : \A other \in ids : id[2] <= other[2]
         IN  <<first>> \o KeysInOrder(ids \ {first})

\* getAllListenerStatuses() that reports every poller ever constructed
getAllListenerStatusesEver(m, ps) ==
    [k \in DOMAIN ps |-> [listenerId |-> ListenerId(0, k), status |-> getStatus(ps[k])]]

\* getAllListenerStatuses()
getAllListenerStatuses(m, ps) ==
    LET keys == KeysInOrder(DOMAIN m)
    IN  [k \in 1..Len(keys) |->
            [listenerId |-> keys[k], status |-> getStatus(ps[m[keys[k]]])]]

\* getActiveListenerCount()
getActiveListenerCount(m) == Cardinality(DOMAIN m)

\* isListening()
isListening(m) == Cardinality(DOMAIN m) > 0

\* a status query called by the host; the result goes to `last`
Query(event) ==
    /\ last' = event
    /\ UNCHANGED <<validation, intervals, activeListeners, listenerCounter, pollers,
                   promises, now>>

GetListenerStatus(id) ==
    Query([NoEvent EXCEPT !.op = "getListenerStatus", !.id = id,
              !.statuses = getListenerStatus(activeListeners, pollers, id)])

GetAllListenerStatuses ==
    Query([NoEvent EXCEPT !.op = "getAllListenerStatuses",
              !.statuses = getAllListenerStatuses(activeListeners, pollers)])

GetActiveListenerCount ==
    Query([NoEvent EXCEPT !.op = "getActiveListenerCount",
              !.count = getActiveListenerCount(activeListeners)])

IsListening ==
    Query([NoEvent EXCEPT !.op = "isListening",
              !.listening = isListening(activeListeners)])

\* One SDK instance whose host starts and stops listeners and asks for their
\* status at any moment.
NextQueries ==
    \/ \E u \in PingUrls : StartListening(u, MaxListeners, MaxRequests)
    \/ PollComplete(CoreResponses)
    \/ \E id \in AllocatedIds \cup {UnknownId} : StopListening(id)
    \/ \E id \in AllocatedIds \cup {UnknownId} : GetListenerStatus(id)
    \/ GetAllListenerStatuses
    \/ GetActiveListenerCount
    \/ IsListening

SpecQueries == Init /\ [][NextQueries]_vars

\* ------------------------------------------- validateLink called by the host
\* the URLs tried: the malformed ones, and matching ones with tokens at the
\* limits of the pattern and of the ping type
UrlsTried ==
    MalformedUrls
    \cup {Url(TRUE, TRUE, SecretDomain, MaxTokenLen + 1, TRUE)}
    \cup MatchingUrls({MinTokenLen, PingMaxTokenLen, PingMaxTokenLen + 1, MaxTokenLen})

InitValidate ==
    /\ validation \in ValidationsTried
    /\ intervals = SDKIntervals(NoOverride)
    /\ activeListeners = [k \in {} |-> 0]
    /\ listenerCounter = 0
    /\ pollers = [k \in {} |-> 0]
    /\ promises = [k \in {} |-> 0]
    /\ now = 0
    /\ last = NoEvent

\* sdk.validateLink(url)
ValidateLink(u) ==
    /\ last' = [NoEvent EXCEPT !.op = "validateLink", !.url = u,
                   !.link = validateLink(validation, u)]
    /\ UNCHANGED <<validation, intervals, activeListeners, listenerCounter, pollers,
                   promises, now>>

NextValidate == \E u \in UrlsTried : ValidateLink(u)

SpecValidate == InitValidate /\ [][NextValidate]_vars

\* ------------------------------------------- construction of the SDK
\* new SecretLinksSDK(options): validateSDKOptions throws and no instance
\* exists, or the fields are initialised (lines 18-31).
Construct(o) ==
    LET message == validateSDKOptions(o)
    IN  /\ validation' = NoValidation
        /\ intervals' =
              IF message # "" THEN SDKIntervals(NoOverride)
              ELSE SDKIntervals([pingInterval |-> OrDefault(o.pingInterval),
                                 webhookInterval |-> OrDefault(o.webhookInterval)])
        /\ activeListeners' = [k \in {} |-> 0]
        /\ listenerCounter' = 0
        /\ pollers' = [k \in {} |-> 0]
        /\ promises' = [k \in {} |-> 0]
        /\ last' = [NoEvent EXCEPT !.op = "construct", !.options = o, !.error = message,
                       !.settled = IF message # "" THEN "rejected" ELSE "resolved"]
        /\ UNCHANGED now

\* the program constructs SDK instances, one after the other
NextConstruct == \E o \in ConstructorOptions : Construct(o)

SpecConstruct == Init /\ [][NextConstruct]_vars

\* ------------------------------------------- the SDK with interval options
\* new SecretLinksSDK(options) with pingInterval and webhookInterval set or not
InitOptions ==
    /\ validation = NoValidation
    /\ \E options \in SDKOptionsTried : intervals = SDKIntervals(options)
    /\ activeListeners = [k \in {} |-> 0]
    /\ listenerCounter = 0
    /\ pollers = [k \in {} |-> 0]
    /\ promises = [k \in {} |-> 0]
    /\ now = 0
    /\ last = NoEvent

\* One listener of an SDK constructed with any of the interval options.
NextOptions ==
    \/ \E u \in Urls : StartListening(u, 1, MaxCycles)
    \/ PollComplete(CoreResponses)
    \/ TimerFires(MaxCycles)

SpecOptions == InitOptions /\ [][NextOptions]_vars

\* ================================================================ claims
\* how often the cycle recorded in `last` invoked the callback c
CountCalls(c) == Cardinality({k \in 1..Len(last.calls) : last.calls[k] = c})

\* the poller the most recent handler run acted on
LastPoller == pollers[last.p]

\* the most recent handler run completed a request of a poller that was
\* running when its response arrived
CycleOfRunning == last.op = "complete" /\ last.running

\* C1: a cycle of a running poller whose response carries the link status
\* expired, exhausted or deleted invokes onStatusChange exactly once with that
\* status and leaves the poller not running, with no timer pending.
C1_TerminalResponseStops ==
    (CycleOfRunning /\ last.resp.ok /\ last.resp.linkStatus \in TerminalStatuses)
    => /\ CountCalls(Call("onStatusChange", last.resp.linkStatus)) = 1
       /\ ~LastPoller.isRunning
       /\ LastPoller.timers = {}

\* C2: a cycle of a running poller that ends in a transport or protocol failure
\* invokes onError exactly once with the error, counts as an empty cycle, and
\* leaves the poller running with exactly one timer armed, after its
\* currentInterval.
C2_FailureKeepsPolling ==
    (CycleOfRunning /\ ~last.resp.ok)
    => /\ last.calls = <<Call("onError", "transport")>>
       /\ LastPoller.isRunning
       /\ LastPoller.adaptive.consecutiveEmpty >= 1
       /\ LastPoller.timers =
              {[h |-> LastPoller.timeoutId, delay |-> LastPoller.adaptive.currentInterval]}

\* C3: a poller that is not running has no timer pending, and no step gives it
\* a timer or lets it issue a request, whatever the step is: a stop of another
\* listener, a timer, the completion of the request it had in flight.
C3_StoppedStaysQuiet ==
    [][\A p \in DOMAIN pollers :
          ~pollers[p].isRunning
          => /\ pollers[p].timers = {}
             /\ pollers'[p].timers = {}
             /\ pollers'[p].issued = pollers[p].issued
             /\ Len(pollers'[p].inflight) <= Len(pollers[p].inflight)]_vars

\* C3 witness: a request that was in flight when its poller was stopped has
\* completed with an active link, so that the cycle reached scheduleNextPoll.
C3_Witness ==
    /\ last.op = "complete" /\ ~last.running
    /\ last.resp.ok /\ last.resp.linkStatus = "active"
    /\ ~last.escaped
    /\ ~LastPoller.isRunning

\* C4: the completion of a request whose poller was stopped while it was in
\* flight invokes no callback, leaves lastSeen and the interval controller as
\* they were and arms no timer.
C4_CompletionAfterStopIsNoOp ==
    [][(last'.op = "complete" /\ ~last'.running)
       => /\ last'.calls = <<>>
          /\ pollers'[last'.p].lastSeenTimestamp = pollers[last'.p].lastSeenTimestamp
          /\ pollers'[last'.p].adaptive = pollers[last'.p].adaptive
          /\ pollers'[last'.p].timers = pollers[last'.p].timers]_vars

\* C5: whatever the sequence of start(), stop(), timer firings and completions
\* on one LinkPoller, it has at most one request in flight, at most one timer
\* pending, and no timer pending while a request is in flight.
C5_OneCycleOutstanding ==
    \A p \in DOMAIN pollers :
        /\ Len(pollers[p].inflight) <= 1
        /\ Cardinality(pollers[p].timers) <= 1
        /\ Len(pollers[p].inflight) = 1 => pollers[p].timers = {}

\* the listener identifiers under which the table holds poller p
IdsOf(p) == {id \in DOMAIN activeListeners : activeListeners[id] = p}

\* C6: once a cycle of a running poller has carried a terminal link status and
\* the poller has stopped itself, the table no longer holds the poller.
C6_SelfTerminatedRemoved ==
    (CycleOfRunning /\ last.resp.ok /\ last.resp.linkStatus \in TerminalStatuses
        /\ ~LastPoller.isRunning)
    => IdsOf(last.p) = {}

\* C7: a startListening call that rejects before constructing a poller rejects
\* with 'Invalid Secret Link URL', and it leaves the table, the counter, the
\* pollers and their requests as they were.
C7_InvalidUrlRejected ==
    [][(last'.op = "startListening" /\ last'.settled = "rejected")
       => /\ last'.error = "Invalid Secret Link URL"
          /\ UNCHANGED <<activeListeners, listenerCounter, pollers, promises>>]_vars

\* the request that start() issued for poller p is in flight
FirstInFlight(p) ==
    \E k \in 1..Len(pollers[p].inflight) : pollers[p].inflight[k].src = "start"

\* C8 as stated: in every state where the first request of a listener is in
\* flight, its identifier is in the table.
C8_RegisteredWhileFirstInFlight ==
    \A p \in DOMAIN promises :
        FirstInFlight(p) => promises[p].id \in DOMAIN activeListeners

\* C8 amended: in every state where the first request of a listener is in
\* flight, the table maps its identifier to its poller, unless stopListening
\* or stopAll has stopped the poller in the meantime.
C8_RegisteredUnlessStopped ==
    \A p \in DOMAIN promises :
        FirstInFlight(p)
        => \/ promises[p].id \in IdsOf(p)
           \/ ~pollers[p].isRunning

\* C8 witness: two listeners have their first request in flight and both are
\* in the table.
C8_Witness ==
    \E p, q \in DOMAIN promises :
        /\ p # q
        /\ FirstInFlight(p) /\ FirstInFlight(q)
        /\ promises[p].id \in IdsOf(p) /\ promises[q].id \in IdsOf(q)

\* C9: when the first cycle of a listener whose poller is still running
\* finishes, startListening resolves; after a transport failure the listener
\* is in the table and its poller is running with its next cycle scheduled.
C9_ResolvesAfterFirstCycle ==
    (CycleOfRunning /\ last.settled # "")
    => /\ last.settled = "resolved"
       /\ ~last.resp.ok => /\ last.id \in IdsOf(last.p)
                           /\ LastPoller.isRunning
                           /\ Cardinality(LastPoller.timers) = 1

\* C10 as stated: when startListening rejects because start() threw, the
\* table holds exactly the identifiers it held before that call.
C10_TableAsBeforeTheCall ==
    (last.op = "complete" /\ last.settled = "rejected")
    => DOMAIN activeListeners = last.tableBefore

\* C10 amended: the step in which startListening rejects because start() threw
\* removes the identifier of that call from the table and changes no other
\* entry.
C10_RollbackRemovesOnlyOwnId ==
    [][(last'.op = "complete" /\ last'.settled = "rejected")
       => /\ DOMAIN activeListeners' = DOMAIN activeListeners \ {last'.id}
          /\ \A k \in DOMAIN activeListeners' : activeListeners'[k] = activeListeners[k]]_vars

\* C10 witness: a startListening call has rejected after its start() threw,
\* its identifier is gone and the table still holds another listener, which was
\* added after that call began.
C10_Witness ==
    /\ last.op = "complete" /\ last.settled = "rejected" /\ last.escaped
    /\ last.id \notin DOMAIN activeListeners
    /\ DOMAIN activeListeners \ last.tableBefore # {}

\* the pollers the table holds
Tracked == {activeListeners[id] : id \in DOMAIN activeListeners}

\* C11: the identifiers allocated so far, those since removed included, are
\* pairwise different, a successful startListening allocates one that was not
\* allocated before, and the table maps an identifier to the poller that was
\* constructed for it.
C11_IdentifiersNeverReused ==
    [][/\ \A p, q \in DOMAIN promises : promises[p].id = promises[q].id => p = q
       /\ \A id \in DOMAIN activeListeners : promises[activeListeners[id]].id = id
       /\ (last'.op = "startListening" /\ last'.settled = "pending")
          => last'.id \notin AllocatedIds]_vars

\* C11 witness: a second identifier has just been allocated after the first
\* one was removed from the table.
C11_Witness ==
    /\ last.op = "startListening" /\ last.settled = "pending" /\ last.p = 2
    /\ promises[1].id \notin DOMAIN activeListeners
    /\ last.id \in DOMAIN activeListeners

\* C12: stopListening(id) of a tracked identifier leaves its poller not running
\* with no timer, removes that identifier from the table and no other, and
\* leaves every other poller as it was.
C12_StopListeningFrame ==
    [][(last'.op = "stopListening" /\ last'.p # 0)
       => /\ ~pollers'[last'.p].isRunning /\ pollers'[last'.p].timers = {}
          /\ DOMAIN activeListeners' = DOMAIN activeListeners \ {last'.id}
          /\ \A k \in DOMAIN activeListeners' : activeListeners'[k] = activeListeners[k]
          /\ \A q \in DOMAIN pollers \ {last'.p} : pollers'[q] = pollers[q]]_vars

\* C12 witness: a listener has been stopped while another tracked listener is
\* running with a timer pending or a request in flight.
C12_Witness ==
    /\ last.op = "stopListening" /\ last.p # 0 /\ last.running
    /\ \E q \in Tracked :
          /\ q # last.p /\ pollers[q].isRunning
          /\ pollers[q].timers # {} \/ pollers[q].inflight # <<>>

\* C13: stopListening(id) of an identifier the table does not hold changes
\* neither the table nor any poller.
C13_StopListeningUnknownIsNoOp ==
    [][(last'.op = "stopListening" /\ last'.p = 0)
       => UNCHANGED <<activeListeners, pollers, listenerCounter, promises>>]_vars

\* C13 witness: stopListening has been called with an identifier the table
\* does not hold while a listener is tracked and running and another
\* identifier has already been removed.
C13_Witness ==
    /\ last.op = "stopListening" /\ last.p = 0
    /\ \E q \in Tracked : pollers[q].isRunning
    /\ AllocatedIds \ DOMAIN activeListeners # {}

\* C14: stopAll() empties the table and leaves every poller that was tracked
\* not running with no timer; with an empty table it changes no poller.
C14_StopAllStopsEverything ==
    [][last'.op = "stopAll"
       => /\ DOMAIN activeListeners' = {}
          /\ \A p \in Tracked : ~pollers'[p].isRunning /\ pollers'[p].timers = {}
          /\ \A p \in DOMAIN pollers \ Tracked : pollers'[p] = pollers[p]]_vars

\* C14 witness: stopAll() has run with two pollers constructed, one of which
\* still has its request in flight; none is running.
C14_Witness ==
    /\ last.op = "stopAll"
    /\ Cardinality(DOMAIN pollers) = 2
    /\ \A p \in DOMAIN pollers : ~pollers[p].isRunning
    /\ \E p \in DOMAIN pollers : pollers[p].inflight # <<>>

\* C15: stop() applied twice gives the state of one stop(), and stop() on a
\* poller that is not running, never started or already stopped, changes
\* nothing.
C15_StopIdempotent ==
    [][/\ \A p \in DOMAIN pollers : stop(stop(pollers[p])) = stop(pollers[p])
       /\ (last'.op = "stop" /\ ~last'.running) => pollers' = pollers]_vars

\* C15 witness: stop() has been called on a poller that had issued a request
\* and was no longer running.
C15_Witness ==
    /\ last.op = "stop" /\ ~last.running
    /\ LastPoller.issued > 0

\* C16: no cycle ends by throwing, and after every cycle a poller that is
\* still running has its next cycle scheduled.
C16_NoExceptionEscapesCycle ==
    last.op = "complete"
    => /\ ~last.escaped
       /\ LastPoller.isRunning => LastPoller.timers # {}

C18_BaseIntervalFromOptions ==
    \A p \in DOMAIN pollers :
        pollers[p].adaptive.baseInterval = Ms(intervals[pollers[p].type])

\* the response of C19: new content with a payload on an active link, no
\* interval suggested by the server
ContentResponse(resp) ==
    /\ resp.ok /\ resp.hasNewContent /\ resp.payload
    /\ resp.linkStatus = "active" /\ resp.nextPollIn = 0

\* C19: a cycle of a running poller with such a response invokes onPayload
\* exactly once and leaves exactly one timer armed, after baseInterval,
\* whatever the interval and the counter were before.
C19_ContentSchedulesAtBase ==
    (CycleOfRunning /\ ContentResponse(last.resp))
    => /\ CountCalls(Call("onPayload", "payload")) = 1
       /\ LastPoller.timers =
              {[h |-> LastPoller.timeoutId, delay |-> LastPoller.adaptive.baseInterval]}

\* the interval controller before and after the step
Adaptive == pollers[1].adaptive
AdaptiveAfter == pollers'[1].adaptive

\* C20: without a hint, adjustInterval(false) leaves currentInterval as it is
\* while it counts the first and the second empty cycle and multiplies it by
\* 1.5 (up to maxInterval) when it counts the third, which from baseInterval
\* gives 1.5 x baseInterval; adjustInterval(true) sets currentInterval to
\* baseInterval and the counter to 0 from any state.
C20_Debounce ==
    [][(last'.op = "adjustInterval" /\ last'.resp.nextPollIn = 0)
       => IF last'.resp.hasNewContent
          THEN /\ AdaptiveAfter.currentInterval = Adaptive.baseInterval
               /\ AdaptiveAfter.consecutiveEmpty = 0
          ELSE /\ AdaptiveAfter.consecutiveEmpty = Adaptive.consecutiveEmpty + 1
               /\ Adaptive.consecutiveEmpty < 2
                  => AdaptiveAfter.currentInterval = Adaptive.currentInterval
               /\ Adaptive.consecutiveEmpty = 2
                  => AdaptiveAfter.currentInterval =
                         Min2((Adaptive.currentInterval * 3) \div 2, Ms(MaxIntervalMs))
               /\ (Adaptive.consecutiveEmpty = 2
                      /\ Adaptive.currentInterval = Adaptive.baseInterval)
                  => 2 * AdaptiveAfter.currentInterval = 3 * Adaptive.baseInterval]_vars

\* C20 witness: the third adjustInterval(false) in a row from the initial
\* state has just multiplied baseInterval by 1.5.
C20_Witness ==
    /\ last.op = "adjustInterval" /\ ~last.resp.hasNewContent /\ last.resp.nextPollIn = 0
    /\ Adaptive.consecutiveEmpty = 3
    /\ 2 * Adaptive.currentInterval = 3 * Adaptive.baseInterval

\* C21: adjustInterval(h, s) with s > 0 sets currentInterval to max(s, 1000)
\* for either h and leaves the counter of empty cycles and baseInterval as
\* they were.
C21_ServerGuidanceWins ==
    [][(last'.op = "adjustInterval" /\ last'.resp.nextPollIn > 0)
       => /\ AdaptiveAfter.currentInterval =
                 Ms(IF last'.resp.nextPollIn >= 1000 THEN last'.resp.nextPollIn ELSE 1000)
          /\ AdaptiveAfter.consecutiveEmpty = Adaptive.consecutiveEmpty
          /\ AdaptiveAfter.baseInterval = Adaptive.baseInterval]_vars

\* C21 witness: a hint below 1000 ms has been given, with content, to a
\* controller that had backed off; the interval is 1000 ms and the counter is
\* still above the threshold.
C21_Witness ==
    /\ last.op = "adjustInterval" /\ last.resp.hasNewContent
    /\ last.resp.nextPollIn = 500
    /\ Adaptive.currentInterval = Ms(1000)
    /\ Adaptive.consecutiveEmpty > 3

\* how often the cycle recorded in `last` invoked the callback named cb
CountCallsOf(cb) == Cardinality({k \in 1..Len(last.calls) : last.calls[k].cb = cb})

\* C22: a cycle of a running poller whose 2xx response has linkStatus 'active'
\* and a server error invokes onError exactly once, with the server's error,
\* and leaves the poller running with its next cycle scheduled.
C22_ServerErrorNonFatal ==
    (CycleOfRunning /\ last.resp.ok /\ last.resp.linkStatus = "active" /\ last.resp.error)
    => /\ CountCalls(Call("onError", "server")) = 1
       /\ CountCallsOf("onError") = 1
       /\ LastPoller.isRunning
       /\ Cardinality(LastPoller.timers) = 1

\* an interval option that is present and is not a number >= 1000
NotNumberAtLeast1000(v) == v.t # "undefined" /\ ~(v.t = "number" /\ v.n >= 1000)

\* C23: construction throws exactly when pollingEndpoint is missing, not a
\* string or not a valid URL, or pingInterval or webhookInterval is present
\* and is not a number >= 1000; when it does not throw the table is empty.
C23_ConstructionFailsFast ==
    last.op = "construct"
    => /\ last.settled = "rejected"
          <=> \/ ~last.options.isObject
              \/ last.options.pollingEndpoint.t # "string"
              \/ ~ParsesAsUrl(last.options.pollingEndpoint.s)
              \/ NotNumberAtLeast1000(last.options.pingInterval)
              \/ NotNumberAtLeast1000(last.options.webhookInterval)
       /\ last.settled = "resolved" => DOMAIN activeListeners = {} /\ DOMAIN pollers = {}

\* the URL does not parse as a secret link: not a string, not of the shape
\* https://<host>/link/<token of 16..64>, or with a host that is not one
FailsParsing(u) ==
    \/ ~u.str \/ ~u.https
    \/ u.tokenLen < MinTokenLen \/ u.tokenLen > MaxTokenLen
    \/ u.domain = BadHost

\* C24: validateLink does not throw; it returns isValid = false exactly when
\* the URL fails parsing, or its domain is outside a non-empty allowedDomains,
\* or its type is outside a non-empty allowedLinkTypes, or requirePassword is
\* set and the URL has no password; otherwise it returns the parsed
\* descriptor.
C24_ValidateLinkTotal ==
    last.op = "validateLink"
    => LET u == last.url
           type == IF u.tokenLen <= 24 THEN "ping" ELSE "webhook"
           rejected ==
               \/ FailsParsing(u)
               \/ validation.allowedDomains # {} /\ u.domain \notin validation.allowedDomains
               \/ validation.allowedLinkTypes # {} /\ type \notin validation.allowedLinkTypes
               \/ validation.requirePassword /\ ~u.password
       IN  /\ ~last.link.threw
           /\ last.link.isValid <=> ~rejected
           /\ last.link.isValid
              => /\ last.link.domain = u.domain /\ last.link.type = type
                 /\ last.link.tokenLen = u.tokenLen /\ last.link.hasPassword = u.password

\* the operations that only ask
QueryOps == {"getListenerStatus", "getAllListenerStatuses", "getActiveListenerCount",
             "isListening"}

\* C25: a status query changes neither the table nor a poller;
\* getListenerStatus is null for an identifier the table does not hold and the
\* status of its poller otherwise; getAllListenerStatuses has one entry for
\* each identifier of the table and no other; getActiveListenerCount is the
\* size of the table, isListening says whether it is above 0, and they are 0
\* and false as long as nothing was started.
C25_QueriesReadOnly ==
    [][(last'.op \in QueryOps)
       => /\ UNCHANGED <<activeListeners, pollers, listenerCounter, promises>>
          /\ last'.op = "getListenerStatus"
             => IF last'.id \in DOMAIN activeListeners
                THEN /\ Len(last'.statuses) = 1
                     /\ last'.statuses[1].isRunning = pollers[activeListeners[last'.id]].isRunning
                ELSE last'.statuses = <<>>
          /\ last'.op = "getAllListenerStatuses"
             => /\ Len(last'.statuses) = Cardinality(DOMAIN activeListeners)
                /\ {last'.statuses[k].listenerId : k \in 1..Len(last'.statuses)}
                      = DOMAIN activeListeners
          /\ last'.op = "getActiveListenerCount"
             => /\ last'.count = Cardinality(DOMAIN activeListeners)
                /\ listenerCounter = 0 => last'.count = 0
          /\ last'.op = "isListening"
             => /\ last'.listening <=> DOMAIN activeListeners # {}
                /\ listenerCounter = 0 => ~last'.listening]_vars

\* C25 witness: all the statuses have been asked for while the table holds one
\* listener and another identifier has been removed from it.
C25_Witness ==
    /\ last.op = "getAllListenerStatuses"
    /\ Len(last.statuses) = 1
    /\ Cardinality(AllocatedIds) = 2
    /\ last.statuses[1].listenerId \in DOMAIN activeListeners

\* no callback throws
NoThrow ==
    [onPayload |-> FALSE, onStatusChange |-> FALSE, onError |-> FALSE,
     onErrorCatch |-> FALSE]

\* C26: in every cycle of a listener each error goes to the onError handler
\* the listener supplied, or to the SDK-level handler when it supplied none,
\* never to the other one; a transport failure, and a server error on an
\* active link, is delivered; and without an onPayload or onStatusChange
\* handler the event is not delivered while the cycle leaves the poller as
\* the same cycle with handlers would.
C26_ErrorRouting ==
    [][(last'.op = "complete")
       => LET p == last'.p
              supplied == promises[p].callbacks
              calls == last'.calls
              handler == IF supplied.onError THEN "onError" ELSE "SDK.onError"
              threw == last'.escaped \/ \E k \in 1..Len(calls) : calls[k].arg = "thrown"
              withHandlers ==
                  [pollers[p] EXCEPT !.inflight = pollers'[p].inflight,
                                     !.callbacks.onPayload = TRUE,
                                     !.callbacks.onStatusChange = TRUE]
          IN  /\ \A k \in 1..Len(calls) :
                    calls[k].cb \in {"onError", "SDK.onError"} => calls[k].cb = handler
              /\ ~last'.resp.ok => calls = <<Call(handler, "transport")>>
              /\ (last'.resp.ok /\ last'.resp.error /\ last'.resp.linkStatus = "active"
                     /\ ~threw)
                 => \E k \in 1..Len(calls) : calls[k] = Call(handler, "server")
              /\ ~supplied.onPayload
                 => \A k \in 1..Len(calls) : calls[k].cb # "onPayload"
              /\ ~supplied.onStatusChange
                 => \A k \in 1..Len(calls) : calls[k].cb # "onStatusChange"
              /\ ~threw
                 => pollers'[p] =
                       [pollResume(withHandlers, last'.resp, NoThrow, now).P
                           EXCEPT !.callbacks = pollers[p].callbacks]]_vars

\* C26 witness: a listener started without onPayload and without onError has
\* received content together with a server error; the only call of the cycle
\* went to the SDK-level handler.
C26_Witness ==
    /\ last.op = "complete" /\ last.running
    /\ ~promises[last.p].callbacks.onError /\ ~promises[last.p].callbacks.onPayload
    /\ last.resp.ok /\ last.resp.hasNewContent /\ last.resp.payload /\ last.resp.error
    /\ last.calls = <<Call("SDK.onError", "server")>>

\* C27: a poller that has sent a request and is not running has been stopped;
\* no step makes it running again or lets it issue a request.
C27_StoppedNeverRestarted ==
    [][\A p \in DOMAIN pollers :
          (~pollers[p].isRunning /\ pollers[p].issued > 0)
          => /\ ~pollers'[p].isRunning
             /\ pollers'[p].issued = pollers[p].issued]_vars

\* C28: startListening on a valid link leaves the new poller running with
\* exactly one request sent, carrying the link's token and type and no
\* lastSeen, and with no timer; and as long as that request is in flight the
\* poller has sent no other request and has no timer pending.
C28_StartPollsAtOnce ==
    /\ [][\A u \in Urls :
             (StartListening(u, 1, MaxCycles) /\ last'.settled = "pending")
             => LET P == pollers'[last'.p]
                IN  /\ P.isRunning
                    /\ P.issued = 1
                    /\ P.timers = {} /\ P.timeoutId = 0
                    /\ P.inflight = <<[src |-> "start", token |-> u.tokenLen,
                                       type |-> detectLinkType(u.tokenLen),
                                       lastSeen |-> <<>>]>>]_vars
    /\ [](\A p \in DOMAIN pollers :
             FirstInFlight(p)
             => /\ Len(pollers[p].inflight) = 1
                /\ pollers[p].issued = 1
                /\ pollers[p].timers = {})

\* C28 witness: startListening on a webhook link has just returned its
\* promise, with the first request in flight.
C28_Witness ==
    /\ last.op = "startListening" /\ last.settled = "pending"
    /\ LastPoller.type = "webhook"
    /\ FirstInFlight(last.p)

\* C29: a cycle of a running poller whose 2xx response has linkStatus 'active'
\* and a server error leaves the interval controller as an empty cycle with
\* the same server hint leaves it, whatever hasNewContent the response has.
C29_ServerErrorCountsAsEmpty ==
    [][(now' = now /\ last'.op = "complete" /\ last'.running /\ ~last'.escaped
          /\ last'.resp.ok /\ last'.resp.linkStatus = "active" /\ last'.resp.error
          /\ \A k \in 1..Len(last'.calls) : last'.calls[k].arg # "thrown")
       => pollers'[last'.p].adaptive =
              adjustInterval(pollers[last'.p].adaptive, FALSE, last'.resp.nextPollIn)]_vars

\* the requests p has in flight, none if p is not constructed yet
InFlightOf(ps, p) == IF p \in DOMAIN ps THEN ps[p].inflight ELSE <<>>

\* C30: lastSeenTimestamp starts absent and changes only when a 2xx response
\* with hasNewContent and a payload is handled, to the time of that handling,
\* which is not earlier than the value it replaces; every request sent carries
\* as lastSeen the value lastSeenTimestamp has when it is sent.  (A step that
\* advances the clock is not a completion, though it leaves last as it was.)
C30_LastSeenOnlyOnContent ==
    [][\A p \in DOMAIN pollers' :
          LET old == IF p \in DOMAIN pollers THEN pollers[p].lastSeenTimestamp ELSE <<>>
              new == pollers'[p].lastSeenTimestamp
              content == /\ now' = now
                         /\ last'.op = "complete" /\ last'.p = p
                         /\ last'.resp.ok /\ last'.resp.hasNewContent /\ last'.resp.payload
              sent == pollers'[p].inflight
          IN  /\ content => new = <<now>>
              /\ ~content => new = old
              /\ (old # <<>>) => (new # <<>> /\ new[1] >= old[1])
              /\ Len(sent) > Len(InFlightOf(pollers, p))
                 => sent[Len(sent)].lastSeen = old]_vars

\* C30 witness: a timer has sent a request whose lastSeen is the time of a
\* content cycle that happened after the clock had advanced.
C30_Witness ==
    /\ last.op = "timer" /\ last.running
    /\ now = 1
    /\ Len(LastPoller.inflight) = 1
    /\ LastPoller.inflight[1].lastSeen = <<1>>

\* n calls adjustInterval(false) in a row on the controller a
RECURSIVE EmptyRun(_, _)
EmptyRun(a, n) == IF n = 0 THEN a ELSE adjustInterval(EmptyRun(a, n - 1), FALSE, 0)

\* The longest run of empty cycles before maxInterval is reached: two cycles
\* below the threshold, then fifteen multiplications from the floor of
\* 1000 ms (1000 x 1.5^14 < 300000 < 1000 x 1.5^15).
RunToCap == 17

\* the step is adjustInterval(false) without a hint
EmptyCycleStep == last'.op = "adjustInterval" /\ ~last'.resp.hasNewContent
                     /\ last'.resp.nextPollIn = 0

\* every empty cycle from the third one on multiplies currentInterval by 1.5,
\* capped at maxInterval
BackoffRule ==
    [][(EmptyCycleStep /\ AdaptiveAfter.consecutiveEmpty >= BackoffThreshold)
       => AdaptiveAfter.currentInterval =
              Min2(TimesBackoff(Adaptive.currentInterval), Ms(MaxIntervalMs))]_vars

\* a run of empty cycles from any reachable controller state has reached
\* maxInterval after RunToCap cycles and is still there one cycle later
RunReachesCap ==
    /\ EmptyRun(Adaptive, RunToCap).currentInterval = Ms(MaxIntervalMs)
    /\ EmptyRun(Adaptive, RunToCap + 1).currentInterval = Ms(MaxIntervalMs)

\* C31 as stated: along a run of empty cycles without hints the backoff rule
\* applies from the third cycle on, no cycle lowers currentInterval, and the
\* run reaches maxInterval and stays there.
C31_BackoffMonotone ==
    /\ BackoffRule
    /\ [][EmptyCycleStep
            => AdaptiveAfter.currentInterval >= Adaptive.currentInterval]_vars
    /\ []RunReachesCap

\* C31 amended: the same, where no cycle lowers a currentInterval that is at
\* most maxInterval, and the first backoff cycle of a run that starts above
\* maxInterval (after a larger server hint) sets it to maxInterval.
C31_BackoffFromBelowCap ==
    /\ BackoffRule
    /\ [][EmptyCycleStep
            => /\ Adaptive.currentInterval <= Ms(MaxIntervalMs)
                  => /\ AdaptiveAfter.currentInterval >= Adaptive.currentInterval
                     /\ AdaptiveAfter.currentInterval <= Ms(MaxIntervalMs)
               /\ (Adaptive.currentInterval > Ms(MaxIntervalMs)
                     /\ AdaptiveAfter.consecutiveEmpty >= BackoffThreshold)
                  => AdaptiveAfter.currentInterval = Ms(MaxIntervalMs)]_vars
    /\ []RunReachesCap

\* C31 witness: a run of twelve empty cycles from baseInterval of a ping link
\* reached maxInterval at its eleventh cycle and has stayed there.
C31_Witness ==
    /\ last.op = "adjustInterval" /\ ~last.resp.hasNewContent /\ last.resp.nextPollIn = 0
    /\ Adaptive.baseInterval = Ms(PingBaseInterval)
    /\ Adaptive.consecutiveEmpty = 12
    /\ Adaptive.currentInterval = Ms(MaxIntervalMs)

\* C35 as stated: currentInterval is between 1000 ms and maxInterval.
C35_IntervalWithinBounds ==
    /\ Adaptive.currentInterval >= Ms(MinSuggestedMs)
    /\ Adaptive.currentInterval <= Ms(MaxIntervalMs)

\* C35 amended: currentInterval is at least 1000 ms; a server hint sets it to
\* max(hint, 1000), above maxInterval if the hint is; no other call raises it
\* above maxInterval or, if it is there, raises it at all.
C35_IntervalBoundsButHint ==
    /\ [](Adaptive.currentInterval >= Ms(MinSuggestedMs))
    /\ [][IF last'.op = "adjustInterval" /\ last'.resp.nextPollIn > 0
          THEN AdaptiveAfter.currentInterval =
                  Max2(Ms(last'.resp.nextPollIn), Ms(MinSuggestedMs))
          ELSE AdaptiveAfter.currentInterval
                  <= Max2(Adaptive.currentInterval, Ms(MaxIntervalMs))]_vars

\* C35 witness: a hint above maxInterval has been adopted.
C35_Witness ==
    /\ last.op = "adjustInterval" /\ last.resp.nextPollIn = 320000
    /\ Adaptive.currentInterval = Ms(320000)
    /\ Adaptive.currentInterval > Ms(MaxIntervalMs)

\* C32: a cycle of a running poller whose response carries a terminal link
\* status invokes onPayload first if the response has content, recording
\* lastSeen, then onStatusChange, and nothing else: no onError for a server
\* error of the same response, no change of the interval controller, no timer.
C32_CycleOrder ==
    [][(now' = now /\ last'.op = "complete" /\ last'.running
          /\ last'.resp.ok /\ last'.resp.linkStatus \in TerminalStatuses)
       => LET P == pollers[last'.p]
              Q == pollers'[last'.p]
              content == last'.resp.hasNewContent /\ last'.resp.payload
          IN  /\ last'.calls =
                    (IF content THEN <<Call("onPayload", "payload")>> ELSE <<>>)
                    \o <<Call("onStatusChange", last'.resp.linkStatus)>>
              /\ content => Q.lastSeenTimestamp = <<now>>
              /\ Q.adaptive = P.adaptive
              /\ Q.timers = {}]_vars

\* C37: after a cycle of a running poller whose response carried a terminal
\* link status the poller is not running and has no timer, whether or not a
\* callback of the cycle threw.
C37_TerminalStopsDespiteThrow ==
    (CycleOfRunning /\ last.resp.ok /\ last.resp.linkStatus \in TerminalStatuses)
    => /\ ~LastPoller.isRunning
       /\ LastPoller.timers = {}

\* the poller of SpecLive is running and has sent n requests so far
RunningAfter(n) ==
    /\ 1 \in DOMAIN pollers
    /\ pollers[1].isRunning
    /\ pollers[1].issued = n

\* it is running and has sent more than n requests
RunningAfterMore(n) ==
    /\ 1 \in DOMAIN pollers
    /\ pollers[1].isRunning
    /\ pollers[1].issued > n

\* the poller of SpecLive has stopped
NotRunning == 1 \in DOMAIN pollers /\ ~pollers[1].isRunning

\* C33: as long as the poller has not stopped, each of its requests is
\* eventually followed by another one (up to the MaxCycles requests of a
\* run), and a cycle whose response carried a terminal link status is
\* eventually followed by a state in which the poller is not running.
C33_PollLoopLive ==
    /\ \A n \in 1..(MaxCycles - 1) :
          RunningAfter(n) ~> (RunningAfterMore(n) \/ NotRunning)
    /\ (CycleOfRunning /\ last.resp.ok /\ last.resp.linkStatus \in TerminalStatuses)
          ~> NotRunning

\* C34: when start() has just made a poller running, the interval controller
\* of the poller is in the state reset() gives.
C34_StartResetsController ==
    (last.op = "start" /\ ~last.running /\ LastPoller.isRunning)
    => LastPoller.adaptive = reset(LastPoller.adaptive)

\* C36: when startListening resolves, the identifier it resolves with is in
\* the table.
C36_ResolvedIdIsRegistered ==
    (last.op = "complete" /\ last.settled = "resolved")
    => last.id \in DOMAIN activeListeners

\* C38: start() on a poller that is running changes nothing: no request is
\* sent, no timer is armed, no field of the poller or of anything else changes.
C38_StartWhileRunningIsNoOp ==
    [][(last'.op = "start" /\ last'.running)
       => /\ pollers' = pollers
          /\ UNCHANGED <<validation, intervals, activeListeners, listenerCounter,
                         promises, now>>]_vars

\* C38 witness: start() has been called on a running poller that has a timer
\* pending and had backed off.
C38_Witness ==
    /\ last.op = "start" /\ last.running
    /\ LastPoller.isRunning
    /\ Cardinality(LastPoller.timers) = 1
    /\ LastPoller.inflight = <<>>
    /\ LastPoller.adaptive.currentInterval > LastPoller.adaptive.baseInterval

\* a 2xx response for an active link that announces content, carries no
\* payload and no server error
ContentWithoutPayload(resp) ==
    /\ resp.ok /\ resp.linkStatus = "active" /\ ~resp.error
    /\ resp.hasNewContent /\ ~resp.payload

====
